---- MODULE Spec2Model ----
(***************************************************************************)
(* robotframework-tools: the Keyword handler of Test Library instances     *)
(* (robottools.library.keywords) and the remote dispatch layer             *)
(* (robottools.remote).                                                    *)
(*                                                                         *)
(* Spec      one caller at a time runs Keyword.__call__ (the XML-RPC       *)
(*           server of RemoteRobot handles one request at a time).         *)
(* ConcSpec  two callers run Keyword.__call__ against the same library     *)
(*           instance with their steps interleaved.                        *)
(* ArgsSpec  Keyword.args() applied to the keyword functions of a bounded  *)
(*           family.                                                       *)
(* RemoteSpec  a RemoteRobot after construction, and the calls of          *)
(*           import_remote_library and of RemoteLibrary's methods.         *)
(***************************************************************************)
EXTENDS Integers, Sequences, FiniteSets, TLC

VARIABLES
    session,      \* libinstance.<identifier>: the active session object per handler
    sessions,     \* libinstance.<plural_identifier>: name -> session object
    context,      \* libinstance.<identifier>: the active context name per handler
    switchable,   \* the identifiers for which libinstance has switch_<identifier>
    call,         \* per caller: the frame of Keyword.__call__
    ncalls,       \* number of calls entered so far
    keyword,      \* a Keyword whose args() is asked for, and what args() gave
    robot         \* the RemoteRobot and the outcome of the last call on it

callVars == <<session, sessions, context, switchable, call, ncalls>>

vars == <<callVars, keyword, robot>>

\* what Keyword.__call__ never touches
others == <<keyword, robot>>

\* Python's None
None == "None"

MaxCalls == 2

Callers == {1, 2}

-----------------------------------------------------------------------------
(* The library instance                                                     *)

\* libinstance.session_handlers, in declared order: hcls.meta of each pair
session_handlers ==
    << [identifier_name |-> "conn", plural_identifier_name |-> "conns"],
       [identifier_name |-> "db",   plural_identifier_name |-> "dbs"] >>

SessionIds == {session_handlers[i].identifier_name : i \in 1..Len(session_handlers)}

SessionNames == {"a", "b", "c"}

\* the context handler classes and the contexts each one defines
ContextHandlerClasses == {"Mode", "Env"}

ContextNames == [Mode |-> {"fast", "slow"}, Env |-> {"dev", "prod"}]

\* hcls.__name__.lower()
Lower(clsname) ==
    CASE clsname = "Mode" -> "mode"
      [] clsname = "Env"  -> "env"
      [] OTHER -> clsname

ContextIds == {Lower(h) : h \in ContextHandlerClasses}

HandlerOf(identifier) == CHOOSE h \in ContextHandlerClasses : Lower(h) = identifier

\* libinstance.contexts: the currently active context values
contexts(ctx) == {[handler |-> h, name |-> ctx[Lower(h)]] : h \in ContextHandlerClasses}

-----------------------------------------------------------------------------
(* Keyword functions, as the @keyword decorator leaves them                 *)

\* a value passed by a caller or declared as a default: a str or an int
StrVal(s) == [t |-> "str", v |-> s]
IntVal(n) == [t |-> "int", v |-> n]

\* '%s' % value
Str(value) == IF value.t = "int" THEN ToString(value.v) ELSE value.v

Ctx(h, n) == [handler |-> h, name |-> n]

\* func.argspec.keywords and func.contexts of each Keyword's func; contexts
\* is listed in the iteration order of the dict
KeywordFuncs ==
    [ Ping |-> [keywords |-> None, contexts |-> <<>>],
      Recv |-> [keywords |-> None,
                contexts |-> << [context |-> Ctx("Mode", "fast"), func |-> "Recv_fast"] >>],
      Send |-> [keywords |-> "options",
                contexts |-> << [context |-> Ctx("Mode", "fast"), func |-> "Send_fast"],
                                [context |-> Ctx("Env", "prod"),  func |-> "Send_prod"] >>],
      Emit |-> [keywords |-> None,
                contexts |-> << [context |-> Ctx("Env", "prod"),  func |-> "Emit_prod"],
                                [context |-> Ctx("Mode", "fast"), func |-> "Emit_fast"] >>] ]

KeywordNames == DOMAIN KeywordFuncs

\* the functions that declare a **kwargs parameter themselves (a context
\* specific implementation is a function of its own)
DeclaresKeywords == {"Send", "Send_prod", "Recv_fast", "Emit_fast"}

\* Keyword.__init__: set(ctx.handler for ctx in func.contexts)
context_handlers(name) ==
    {KeywordFuncs[name].contexts[i].context.handler :
        i \in 1..Len(KeywordFuncs[name].contexts)}

-----------------------------------------------------------------------------
(* What callers pass                                                        *)

MaxKwargs == 2

KwargKeys == {"conn", "db", "mode", "env", "k"}

KwargValues ==
    [ conn |-> {StrVal("b"), StrVal("c")},
      db   |-> {StrVal("b"), StrVal("c")},
      mode |-> {StrVal("fast"), StrVal("zz")},
      env  |-> {StrVal("prod")},
      k    |-> {IntVal(7)} ]

AllKwargValues == UNION {KwargValues[k] : k \in KwargKeys}

KwargsSet ==
    UNION { {kw \in [D -> AllKwargValues] : \A k \in D : kw[k] \in KwargValues[k]} :
            D \in {D \in SUBSET KwargKeys : Cardinality(D) <= MaxKwargs} }

ArgsSet == {<< StrVal("p") >>}

\* an empty dict
EmptyDict == [k \in {} |-> None]

\* Pop that reads the key and leaves it in the dict
Pop_kept(kwargs, key) == kwargs

\* kwargs.pop(key), the dict that is left
Pop(kwargs, key) == [k \in DOMAIN kwargs \ {key} |-> kwargs[k]]

-----------------------------------------------------------------------------
(* The operations of the library instance that Keyword.__call__ uses        *)

\* the names bound in libinstance.<plural_identifier>
Bound(sess, plural) == {n \in SessionNames : sess[plural][n] # None}

\* switch_<identifier>(sname) of a session handler: the named session
\* becomes the active one; an unknown name is an error
switch_session(ses, sess, identifier, plural, sname) ==
    IF sname \in Bound(sess, plural)
    THEN [error |-> None, session |-> [ses EXCEPT ![identifier] = sess[plural][sname]]]
    ELSE [error |-> "SwitchTargetNotFound", session |-> ses]

\* switch_<identifier>(ctxname) of a context handler
switch_context(ctx, identifier, ctxname) ==
    IF ctxname \in ContextNames[HandlerOf(identifier)]
    THEN [error |-> None, context |-> [ctx EXCEPT ![identifier] = ctxname]]
    ELSE [error |-> "SwitchTargetNotFound", context |-> ctx]

-----------------------------------------------------------------------------
(* Keyword.__call__                                                         *)

\* a call that Keyword.__call__ makes, as the frame's log keeps it: a
\* switch_<identifier>(arg) of the library instance while intercepting or
\* restoring, or the call of the Keyword function
Switched(step, kind, identifier, arg) ==
    [step |-> step, kind |-> kind, identifier |-> identifier, arg |-> arg]

Invoked(func) == [step |-> "invoke", kind |-> "func", identifier |-> func, arg |-> None]

\* the body of the Keyword function has not run
NoEffect == [kind |-> "none", from |-> None, to |-> None]

IdleFrame ==
    [ pc |-> "IDLE", seq |-> 0, name |-> None, args |-> <<>>, kwargs |-> EmptyDict,
      kwargs0 |-> EmptyDict,
      current_sessions |-> EmptyDict, current_contexts |-> EmptyDict,
      func |-> None, passed |-> [args |-> <<>>, kwargs |-> EmptyDict],
      body_session |-> EmptyDict, body_contexts |-> {},
      entry_session |-> EmptyDict, entry_context |-> EmptyDict,
      effect |-> NoEffect, log |-> <<>>,
      result |-> None, error |-> None ]

\* the loop over libinstance.session_handlers, from handler i on; it stops
\* at the first error, which leaves __call__ at once
RECURSIVE SessionLoop(_, _)
SessionLoop(i, st) ==
    IF i > Len(session_handlers) \/ st.error # None THEN st
    ELSE
        LET identifier == session_handlers[i].identifier_name
            plural_identifier == session_handlers[i].plural_identifier_name
        IN  IF identifier \notin DOMAIN st.kwargs THEN SessionLoop(i + 1, st)
            ELSE
                LET sname == st.kwargs[identifier].v
                    recorded == (<<identifier, plural_identifier>> :> st.session[identifier])
                                    @@ st.current_sessions
                    popped == [st EXCEPT !.kwargs = Pop(st.kwargs, identifier),
                                         !.current_sessions = recorded]
                    sw == switch_session(st.session, sessions, identifier,
                                         plural_identifier, sname)
                IN  IF identifier \notin switchable
                    THEN [popped EXCEPT !.error = "AttributeError"]
                    ELSE SessionLoop(i + 1,
                            [popped EXCEPT !.session = sw.session,
                                           !.error = sw.error,
                                           !.log = Append(@, Switched("intercept", "session",
                                                                      identifier, sname))])

\* ContextLoop that switches a handler without an option to the context it
\* is in
RECURSIVE ContextLoop_defaulting(_, _, _)
ContextLoop_defaulting(order, i, st) ==
    IF i > Len(order) \/ st.error # None THEN st
    ELSE
        LET identifier == Lower(order[i])
            ctxname == IF identifier \in DOMAIN st.kwargs
                       THEN st.kwargs[identifier].v ELSE st.context[identifier]
            recorded == (identifier :> st.context[identifier]) @@ st.current_contexts
            popped == [st EXCEPT !.kwargs = Pop(st.kwargs, identifier),
                                 !.current_contexts = recorded]
            sw == switch_context(st.context, identifier, ctxname)
        IN  IF identifier \notin switchable
            THEN [popped EXCEPT !.error = "AttributeError"]
            ELSE ContextLoop_defaulting(order, i + 1,
                    [popped EXCEPT !.context = sw.context,
                                   !.error = sw.error,
                                   !.log = Append(@, Switched("intercept", "context",
                                                              identifier, ctxname))])

\* the loop over self.context_handlers, a set, in the order the set gives
RECURSIVE ContextLoop(_, _, _)
ContextLoop(order, i, st) ==
    IF i > Len(order) \/ st.error # None THEN st
    ELSE
        LET identifier == Lower(order[i])
        IN  IF identifier \notin DOMAIN st.kwargs THEN ContextLoop(order, i + 1, st)
            ELSE
                LET ctxname == st.kwargs[identifier].v
                    recorded == (identifier :> st.context[identifier]) @@ st.current_contexts
                    popped == [st EXCEPT !.kwargs = Pop(st.kwargs, identifier),
                                         !.current_contexts = recorded]
                    sw == switch_context(st.context, identifier, ctxname)
                IN  IF identifier \notin switchable
                    THEN [popped EXCEPT !.error = "AttributeError"]
                    ELSE ContextLoop(order, i + 1,
                            [popped EXCEPT !.context = sw.context,
                                           !.error = sw.error,
                                           !.log = Append(@, Switched("intercept", "context",
                                                                      identifier, ctxname))])

\* the orders in which a set can be iterated
Orders(S) == {o \in [1..Cardinality(S) -> S] : \A x \in S : \E i \in DOMAIN o : o[i] = x}

\* VariantLoop without the test for the active contexts
VariantLoop_unchecked(table, i, active, func) ==
    IF Len(table) = 0 THEN func ELSE table[Len(table)].func

\* VariantLoop that stops at the first match
VariantLoop_first(table, i, active, func) ==
    LET matches == {j \in i..Len(table) : table[j].context \in active}
    IN  IF matches = {} THEN func
        ELSE table[CHOOSE j \in matches : \A k \in matches : j <= k].func

\* the loop over func.contexts.items(): a later match replaces an earlier one
RECURSIVE VariantLoop(_, _, _, _)
VariantLoop(table, i, active, func) ==
    IF i > Len(table) THEN func
    ELSE VariantLoop(table, i + 1, active,
                     IF table[i].context \in active THEN table[i].func ELSE func)

\* ('%s=%s' % item for item in kwargs.items()), in the order the dict gives
ikwargs(kwargs, order) == [i \in DOMAIN order |-> StrVal(order[i] \o "=" \o Str(kwargs[order[i]]))]

\* Forward with the test made on the function the call resolved to
Forward_resolved(name, func, args, kwargs, order) ==
    IF func \in DeclaresKeywords \/ DOMAIN kwargs = {}
    THEN [args |-> args, kwargs |-> kwargs]
    ELSE [args |-> args \o ikwargs(kwargs, order), kwargs |-> EmptyDict]

\* what the Keyword function is called with, after the libinstance: the
\* test reads self.func.argspec, whatever func the call resolved to
Forward(name, func, args, kwargs, order) ==
    IF KeywordFuncs[name].keywords # None \/ DOMAIN kwargs = {}
    THEN [args |-> args, kwargs |-> kwargs]
    ELSE [args |-> args \o ikwargs(kwargs, order), kwargs |-> EmptyDict]

\* line 117: a caller calls the Keyword; nothing is switched yet
Enter(t, name, args, kwargs) ==
    /\ call[t].pc = "IDLE"
    /\ ncalls < MaxCalls
    /\ ncalls' = ncalls + 1
    /\ call' = [call EXCEPT ![t] =
            [IdleFrame EXCEPT !.pc = "INTERCEPTING_SESSIONS",
                              !.seq = ncalls + 1,
                              !.name = name, !.args = args,
                              !.kwargs = kwargs, !.kwargs0 = kwargs,
                              !.func = name,
                              !.entry_session = session,
                              !.entry_context = context]]
    /\ UNCHANGED <<others, session, sessions, context, switchable>>

\* lines 122-134: the <session>= options
InterceptSessions(t) ==
    /\ call[t].pc = "INTERCEPTING_SESSIONS"
    /\ LET st == SessionLoop(1, [session |-> session, kwargs |-> call[t].kwargs,
                                 current_sessions |-> EmptyDict, error |-> None,
                                 log |-> call[t].log])
       IN  /\ session' = st.session
           /\ call' = [call EXCEPT ![t].kwargs = st.kwargs,
                                   ![t].current_sessions = st.current_sessions,
                                   ![t].log = st.log,
                                   ![t].error = st.error,
                                   ![t].pc = IF st.error = None
                                             THEN "INTERCEPTING_CONTEXTS" ELSE "RAISED"]
    /\ UNCHANGED <<others, sessions, context, switchable, ncalls>>

\* lines 135-146: the <context>= options
InterceptContexts(t) ==
    /\ call[t].pc = "INTERCEPTING_CONTEXTS"
    /\ \E order \in Orders(context_handlers(call[t].name)) :
         LET st == ContextLoop(order, 1,
                               [context |-> context, kwargs |-> call[t].kwargs,
                                current_contexts |-> EmptyDict, error |-> None,
                                log |-> call[t].log])
         IN  /\ context' = st.context
             /\ call' = [call EXCEPT ![t].kwargs = st.kwargs,
                                     ![t].current_contexts = st.current_contexts,
                                     ![t].log = st.log,
                                     ![t].error = st.error,
                                     ![t].pc = IF st.error = None
                                               THEN "RESOLVING_VARIANT" ELSE "RAISED"]
    /\ UNCHANGED <<others, session, sessions, switchable, ncalls>>

\* lines 147-150: the context specific implementation
ResolveVariant(t) ==
    /\ call[t].pc = "RESOLVING_VARIANT"
    /\ call' = [call EXCEPT
            ![t].func = VariantLoop(KeywordFuncs[call[t].name].contexts, 1,
                                    contexts(context), call[t].name),
            ![t].pc = "INVOKING"]
    /\ UNCHANGED <<others, session, sessions, context, switchable, ncalls>>

\* what the body of a Keyword function may do to the library instance: the
\* function is opaque to the Keyword handler
BodyEffects ==
    {[kind |-> "return", from |-> None, to |-> None],
     [kind |-> "raise",  from |-> None, to |-> None]}
    \cup {[kind |-> "rename", from |-> f, to |-> n] : f, n \in SessionNames}
    \cup {[kind |-> "close", from |-> f, to |-> None] : f \in SessionNames}

\* the session mapping after the body: "rename" binds a session of "conns"
\* to another name, "close" removes one
BodySessions(sess, effect) ==
    CASE effect.kind = "rename" ->
            [sess EXCEPT !["conns"][effect.to] = sess["conns"][effect.from],
                         !["conns"][effect.from] = None]
      [] effect.kind = "close" -> [sess EXCEPT !["conns"][effect.from] = None]
      [] OTHER -> sess

\* a closed session is no longer the active one
BodySession(ses, sess, effect) ==
    IF effect.kind = "close" /\ ses["conn"] = sess["conns"][effect.from]
    THEN [ses EXCEPT !["conn"] = None]
    ELSE ses

BodyEnabled(sess, effect) ==
    CASE effect.kind = "rename" ->
            effect.from \in Bound(sess, "conns") /\ effect.to \notin Bound(sess, "conns")
      [] effect.kind = "close" -> effect.from \in Bound(sess, "conns")
      [] OTHER -> TRUE

\* lines 151-156: the call of the Keyword function; an error raised by the
\* function leaves __call__ at once
Invoke(t, effect) ==
    /\ call[t].pc = "INVOKING"
    /\ BodyEnabled(sessions, effect)
    /\ \E order \in Orders(DOMAIN call[t].kwargs) :
         call' = [call EXCEPT
            ![t].passed = Forward(call[t].name, call[t].func, call[t].args,
                                call[t].kwargs, order),
            ![t].body_session = session,
            ![t].body_contexts = contexts(context),
            ![t].effect = effect,
            ![t].log = Append(@, Invoked(call[t].func)),
            ![t].result = IF effect.kind = "raise" THEN None ELSE call[t].func,
            ![t].error = IF effect.kind = "raise" THEN "KeywordError" ELSE None,
            ![t].pc = IF effect.kind = "raise" THEN "RAISED" ELSE "RESTORING_CONTEXTS"]
    /\ sessions' = BodySessions(sessions, effect)
    /\ session' = BodySession(session, sessions, effect)
    /\ UNCHANGED <<others, context, switchable, ncalls>>

\* ContextsBack that switches nothing back
ContextsBack_skipped(ctx, current_contexts, todo) == ctx

\* lines 158-159: switch back the contexts
RECURSIVE ContextsBack(_, _, _)
ContextsBack(ctx, current_contexts, todo) ==
    IF todo = {} THEN ctx
    ELSE LET identifier == CHOOSE k \in todo : TRUE
         IN  ContextsBack(switch_context(ctx, identifier, current_contexts[identifier]).context,
                          current_contexts, todo \ {identifier})

\* the switch_<identifier> calls of ContextsBack, in its order
RECURSIVE ContextsBackLog(_, _)
ContextsBackLog(current_contexts, todo) ==
    IF todo = {} THEN <<>>
    ELSE LET identifier == CHOOSE k \in todo : TRUE
         IN  <<Switched("restore", "context", identifier, current_contexts[identifier])>>
             \o ContextsBackLog(current_contexts, todo \ {identifier})

RestoreContexts(t) ==
    /\ call[t].pc = "RESTORING_CONTEXTS"
    /\ context' = ContextsBack(context, call[t].current_contexts,
                               DOMAIN call[t].current_contexts)
    /\ call' = [call EXCEPT ![t].pc = "RESTORING_SESSIONS",
                            ![t].log = @ \o ContextsBackLog(call[t].current_contexts,
                                                            DOMAIN call[t].current_contexts)]
    /\ UNCHANGED <<others, session, sessions, switchable, ncalls>>

\* SessionBack that looks for no name and switches to none
SessionBack_skipped(ses, sess, identifier, plural_identifier, recorded) == ses

\* SessionBack by the name the recorded object had when it was opened
SessionBack_byname(ses, sess, identifier, plural_identifier, recorded) ==
    LET opened == [conns |-> [s1 |-> "a", s2 |-> "b"], dbs |-> [d1 |-> "a", d2 |-> "b"]]
    IN  IF recorded \notin DOMAIN opened[plural_identifier] THEN ses
        ELSE switch_session(ses, sess, identifier, plural_identifier,
                            opened[plural_identifier][recorded]).session

\* SessionBack that makes the recorded object the active one itself when
\* no name is bound to it
SessionBack_reset(ses, sess, identifier, plural_identifier, recorded) ==
    LET names == {sname \in Bound(sess, plural_identifier) :
                    sess[plural_identifier][sname] = recorded}
    IN  IF names = {} THEN [ses EXCEPT ![identifier] = recorded]
        ELSE switch_session(ses, sess, identifier, plural_identifier,
                            CHOOSE sname \in names : TRUE).session

\* lines 162-166: switch to every name that is bound to the recorded object
SessionBack(ses, sess, identifier, plural_identifier, recorded) ==
    LET names == {sname \in Bound(sess, plural_identifier) :
                    sess[plural_identifier][sname] = recorded}
    IN  IF names = {} THEN ses
        ELSE switch_session(ses, sess, identifier, plural_identifier,
                            CHOOSE sname \in names : TRUE).session

\* lines 160-161: the loop over current_sessions.items()
RECURSIVE SessionsBack(_, _, _, _)
SessionsBack(ses, sess, current_sessions, todo) ==
    IF todo = {} THEN ses
    ELSE LET key == CHOOSE k \in todo : TRUE
         IN  SessionsBack(SessionBack(ses, sess, key[1], key[2], current_sessions[key]),
                          sess, current_sessions, todo \ {key})

\* the switch_<identifier> calls of SessionsBack, in its order: one for a
\* recorded object that is bound to a name, none for one that is not
RECURSIVE SessionsBackLog(_, _, _)
SessionsBackLog(sess, current_sessions, todo) ==
    IF todo = {} THEN <<>>
    ELSE LET key == CHOOSE k \in todo : TRUE
             names == {sname \in Bound(sess, key[2]) :
                            sess[key[2]][sname] = current_sessions[key]}
         IN  (IF names = {} THEN <<>>
              ELSE <<Switched("restore", "session", key[1], CHOOSE sname \in names : TRUE)>>)
             \o SessionsBackLog(sess, current_sessions, todo \ {key})

\* lines 160-167: switch back the sessions and return the result
RestoreSessions(t) ==
    /\ call[t].pc = "RESTORING_SESSIONS"
    /\ session' = SessionsBack(session, sessions, call[t].current_sessions,
                               DOMAIN call[t].current_sessions)
    /\ call' = [call EXCEPT ![t].pc = "DONE",
                            ![t].log = @ \o SessionsBackLog(sessions, call[t].current_sessions,
                                                            DOMAIN call[t].current_sessions)]
    /\ UNCHANGED <<others, sessions, context, switchable, ncalls>>

\* Return that may leave before the sessions are switched back
Return_early(t) ==
    /\ call[t].pc \in {"RESTORING_SESSIONS", "DONE", "RAISED"}
    /\ call' = [call EXCEPT ![t] = IdleFrame]
    /\ UNCHANGED <<others, session, sessions, context, switchable, ncalls>>

\* the caller has the result or the error: the frame is gone
Return(t) ==
    /\ call[t].pc \in {"DONE", "RAISED"}
    /\ call' = [call EXCEPT ![t] = IdleFrame]
    /\ UNCHANGED <<others, session, sessions, context, switchable, ncalls>>

-----------------------------------------------------------------------------
(* The RemoteRobot                                                          *)

NoRobot == [pc |-> "none"]

MaxLibraries == 2

\* Import calls in all, those of the constructor included
MaxImports == 4

\* the sequences over S of the lengths lo..hi
Seqs(S, lo, hi) == UNION {[1..n -> S] : n \in lo..hi}

\* the Test Libraries that can be imported, and dir(lib) of each
LibraryKeywords ==
    [ LibA |-> <<"A", "B">>,
      LibB |-> <<"B", "C">>,
      LibC |-> <<"D">> ]

LibraryNames == DOMAIN LibraryKeywords

\* the sequences over S without a repetition, of at most n items
Distinct(S, n) == {q \in Seqs(S, 0, n) : \A i, j \in DOMAIN q : q[i] = q[j] => i = j}

Contains(q, x) == \E i \in DOMAIN q : q[i] = x

\* TestRobot.Import(name): robot._libraries with the library under its name
Import(libraries, name) == IF Contains(libraries, name) THEN libraries ELSE Append(libraries, name)

RECURSIVE ImportAll(_, _)
ImportAll(libraries, names) ==
    IF names = <<>> THEN libraries
    ELSE ImportAll(Import(libraries, Head(names)), Tail(names))

\* robot[name]: the name is a keyword of one of the imported libraries
Resolvable(libraries, name) ==
    \E i \in DOMAIN libraries : Contains(LibraryKeywords[libraries[i]], name)

\* what RobotRemoteServer registers itself
ServerFunctions ==
    {"get_keyword_names", "run_keyword", "get_keyword_arguments",
     "get_keyword_documentation", "stop_remote_server"}

IntrospectionFunctions == {"system.listMethods", "system.methodHelp", "system.methodSignature"}

\* lines 87-95: the four functions registered for a keyword
register_keyword(name) ==
    {name, name \o ".__repr__", name \o ".getdoc", name \o ".__nonzero__"}

\* lines 97-99
register_library_keywords(lib) ==
    UNION {register_keyword(LibraryKeywords[lib][i]) : i \in DOMAIN LibraryKeywords[lib]}

\* lines 101-107
register_functions(libraries, register_keywords, introspection) ==
    ServerFunctions
    \cup (IF register_keywords
          THEN UNION {register_library_keywords(libraries[i]) : i \in DOMAIN libraries}
          ELSE {})
    \cup (IF introspection THEN IntrospectionFunctions ELSE {})

\* the methods class RemoteRobot defines (lines 69-153)
RemoteRobotMethods ==
    {"__init__", "_register_keyword", "_register_library_keywords", "_register_functions",
     "import_remote_library", "get_keyword_names", "_get_keyword", "_arguments_from_kw",
     "__dir__", "__getattr__"}

NoOp == [name |-> None, arg |-> None, error |-> None, result |-> <<>>]

\* lines 70-85: RemoteRobot(libraries, allow_import=..., register_keywords=...,
\* introspection=...)
RemoteRobot(libraries, allow_import, register_keywords, introspection) ==
    [ pc |-> "serving",
      libraries |-> libraries,
      _libraries |-> ImportAll(<<>>, libraries),
      imported |-> libraries,
      allow_import |-> allow_import,
      register_keywords |-> register_keywords,
      introspection |-> introspection,
      functions |-> register_functions(ImportAll(<<>>, libraries),
                                       register_keywords, introspection),
      op |-> NoOp ]

\* import_remote_library that imports the library before it asks whether
\* the import is allowed
ImportRemoteLibrary_unchecked(name) ==
    /\ robot.pc = "serving"
    /\ Len(robot.imported) < MaxImports
    /\ robot' =
         LET imported == [robot EXCEPT !._libraries = Import(robot._libraries, name),
                                       !.imported = Append(robot.imported, name)]
             called == [NoOp EXCEPT !.name = "import_remote_library", !.arg = name]
         IN  IF name \notin robot.allow_import
             THEN [imported EXCEPT !.op = [called EXCEPT !.error = "RuntimeError"]]
             ELSE IF ~robot.register_keywords THEN [imported EXCEPT !.op = called]
             ELSE [imported EXCEPT !.op = [called EXCEPT !.error = "AttributeError"]]
    /\ UNCHANGED <<callVars, keyword>>

\* lines 109-125: import_remote_library(name), called as a keyword
ImportRemoteLibrary(name) ==
    /\ robot.pc = "serving"
    /\ Len(robot.imported) < MaxImports
    /\ robot' =
         IF name \notin robot.allow_import
         THEN [robot EXCEPT !.op = [NoOp EXCEPT !.name = "import_remote_library",
                                                !.arg = name, !.error = "RuntimeError"]]
         ELSE
            LET imported == [robot EXCEPT !._libraries = Import(robot._libraries, name),
                                          !.imported = Append(robot.imported, name)]
                called == [NoOp EXCEPT !.name = "import_remote_library", !.arg = name]
            IN  IF ~robot.register_keywords THEN [imported EXCEPT !.op = called]
                ELSE IF "_register_keywords" \notin RemoteRobotMethods
                THEN [imported EXCEPT !.op = [called EXCEPT !.error = "AttributeError"]]
                ELSE [imported EXCEPT !.op = called,
                                      !.functions = @ \cup register_library_keywords(name)]
    /\ UNCHANGED <<callVars, keyword>>

\* chain(*lists)
RECURSIVE chain(_)
chain(lists) == IF lists = <<>> THEN <<>> ELSE Head(lists) \o chain(Tail(lists))

\* the first occurrences of the items of a list
RECURSIVE Unique(_)
Unique(q) ==
    IF q = <<>> THEN <<>>
    ELSE LET r == Unique(SubSeq(q, 1, Len(q) - 1))
         IN  IF Contains(r, q[Len(q)]) THEN r ELSE Append(r, q[Len(q)])

\* get_keyword_names that lists a name once
get_keyword_names_once(libraries) ==
    Unique(chain([i \in DOMAIN libraries |-> LibraryKeywords[libraries[i]]]))

\* lines 40-41: list(chain(*map(dir, self.robot._libraries.values())))
get_keyword_names(libraries) ==
    chain([i \in DOMAIN libraries |-> LibraryKeywords[libraries[i]]])

\* RemoteLibrary.get_keyword_names()
GetKeywordNames ==
    /\ robot.pc = "serving"
    /\ robot' = [robot EXCEPT !.op = [NoOp EXCEPT !.name = "get_keyword_names",
                                      !.result = get_keyword_names(robot._libraries)]]
    /\ UNCHANGED <<callVars, keyword>>

\* what is found on a RemoteLibrary by the normal attribute lookup, for which
\* __getattr__ is not called (lines 36-59)
RemoteLibraryAttributes ==
    {"robot", "__init__", "get_keyword_names", "get_keyword_arguments",
     "get_keyword_documentation", "run_keyword", "__getattr__"}

\* the names a client may ask a RemoteLibrary for
AttributeNames ==
    UNION {{LibraryKeywords[lib][i] : i \in DOMAIN LibraryKeywords[lib]} : lib \in LibraryNames}
    \cup {"Z", "run_keyword"}

\* robot[name]: the keyword of that name, or a KeyError
getitem(libraries, name) ==
    IF Resolvable(libraries, name)
    THEN [error |-> None, value |-> <<"Keyword", name>>]
    ELSE [error |-> "KeyError", value |-> <<>>]

\* __getattr__ without the try/except: the KeyError leaves as it is
getattr_unguarded(libraries, name) == getitem(libraries, name)

\* lines 55-59: RemoteLibrary.__getattr__(name)
getattr(libraries, name) ==
    LET found == getitem(libraries, name)
    IN  IF found.error = "KeyError"
        THEN [error |-> "AttributeError", value |-> <<>>]
        ELSE found

\* remotelibrary.<name>
GetAttr(name) ==
    /\ robot.pc = "serving"
    /\ robot' = [robot EXCEPT !.op =
            IF name \in RemoteLibraryAttributes
            THEN [NoOp EXCEPT !.name = "getattribute", !.arg = name,
                              !.result = <<"method", name>>]
            ELSE LET got == getattr(robot._libraries, name)
                 IN  [NoOp EXCEPT !.name = "__getattr__", !.arg = name,
                                  !.error = got.error, !.result = got.value]]
    /\ UNCHANGED <<callVars, keyword>>

-----------------------------------------------------------------------------
(* Keyword.args()                                                           *)

MaxPosargs == 3

\* an optional list: func.args, argspec.defaults
NoList == [given |-> FALSE, items |-> <<>>]
List(items) == [given |-> TRUE, items |-> items]

\* `if x:` of an optional list
Truthy(list) == list.given /\ Len(list.items) > 0

ParamNames == <<"self", "a", "b", "c", "d", "e">>

\* the argspecs of the keyword functions: self and up to MaxPosargs
\* parameters, with defaults for at most all of them
ArgSpecs ==
    {[args |-> SubSeq(ParamNames, 1, n), defaults |-> d, varargs |-> va, keywords |-> kw] :
        n \in 1..(MaxPosargs + 1), va \in {None, "args"}, kw \in {None, "kwargs"},
        d \in {NoList} \cup {List(x) : x \in Seqs({IntVal(5), StrVal("x")}, 0, MaxPosargs + 1)}}

\* the keyword functions args() is asked about: an optional args override,
\* the argspec, and whether there are context specific implementations
ArgsFuncs ==
    {[args |-> o, argspec |-> sp, contexts |-> c] :
        o \in {NoList, List(<<>>), List(<<"x", "y=1">>)},
        sp \in {sp \in ArgSpecs : sp.defaults.given => Len(sp.defaults.items) <= Len(sp.args)},
        c \in {<<>>, KeywordFuncs["Recv"].contexts}}

\* sequence[index] of Python, for a negative index too
Index(sequence, index) ==
    LET i == IF index < 0 THEN Len(sequence) + index + 1 ELSE index + 1
    IN  IF i \in 1..Len(sequence)
        THEN [error |-> None, value |-> sequence[i]]
        ELSE [error |-> "IndexError", value |-> StrVal("")]

\* DefaultsLoop with the defaults matched to the first parameters
DefaultsLoop_left(posargs, defaults) ==
    [i \in 1..Len(posargs) |->
        IF i <= Len(defaults) THEN posargs[i] \o "=" \o Str(defaults[i]) ELSE posargs[i]]

\* lines 90-98: zip(posargs, range(-len(posargs), 0)), one token per pair
DefaultsLoop(posargs, defaults) ==
    [i \in 1..Len(posargs) |->
        LET defaults_index == -Len(posargs) + (i - 1)
            default == Index(defaults, defaults_index)
        IN  IF default.error = "IndexError" THEN posargs[i]
            ELSE posargs[i] \o "=" \o Str(default.value)]

\* KeywordArgs with `if` for the `elif` of line 111
KeywordArgs_always_options(func, libinstance_session_handlers) ==
    IF Truthy(func.args) THEN func.args.items
    ELSE
        LET argspec == func.argspec
            posargs == SubSeq(argspec.args, 2, Len(argspec.args))
            defaults == argspec.defaults
            handlers == {func.contexts[i].context.handler : i \in 1..Len(func.contexts)}
        IN  (IF Truthy(defaults) THEN DefaultsLoop(posargs, defaults.items) ELSE posargs)
            \o (IF argspec.varargs # None THEN <<"*" \o argspec.varargs>> ELSE <<>>)
            \o (IF argspec.keywords # None THEN <<"**" \o argspec.keywords>> ELSE <<>>)
            \o (IF Len(libinstance_session_handlers) > 0 \/ handlers # {}
                THEN <<"**options">> ELSE <<>>)

\* lines 75-112: the tokens args() yields, in order
KeywordArgs(func, libinstance_session_handlers) ==
    IF Truthy(func.args) THEN func.args.items
    ELSE
        LET argspec == func.argspec
            posargs == SubSeq(argspec.args, 2, Len(argspec.args))
            defaults == argspec.defaults
            handlers == {func.contexts[i].context.handler : i \in 1..Len(func.contexts)}
        IN  (IF Truthy(defaults) THEN DefaultsLoop(posargs, defaults.items) ELSE posargs)
            \o (IF argspec.varargs # None THEN <<"*" \o argspec.varargs>> ELSE <<>>)
            \o (IF argspec.keywords # None THEN <<"**" \o argspec.keywords>>
                ELSE IF Len(libinstance_session_handlers) > 0 \/ handlers # {}
                     THEN <<"**options">> ELSE <<>>)

NoKeyword ==
    [pc |-> "none", func |-> [args |-> NoList, argspec |-> [args |-> <<>>, defaults |-> NoList,
                              varargs |-> None, keywords |-> None], contexts |-> <<>>],
     session_handlers |-> <<>>, arguments |-> <<>>]

\* list(keyword.args()) for the Keyword at hand
Args ==
    /\ keyword.pc = "new"
    /\ keyword' = [keyword EXCEPT !.pc = "listed",
                                  !.arguments = KeywordArgs(keyword.func, keyword.session_handlers)]
    /\ UNCHANGED <<callVars, robot>>

-----------------------------------------------------------------------------
(* The specifications                                                       *)

AllIds == SessionIds \cup ContextIds

\* the library instance with its sessions opened, and no call under way
LibraryInit ==
    /\ sessions = [conns |-> [a |-> "s1", b |-> "s2", c |-> None],
                   dbs   |-> [a |-> "d1", b |-> "d2", c |-> None]]
    /\ session = [conn |-> "s1", db |-> "d1"]
    /\ context = [mode |-> "slow", env |-> "dev"]
    /\ call = [t \in Callers |-> IdleFrame]
    /\ ncalls = 0

Init ==
    /\ LibraryInit
    /\ switchable \in {AllIds, AllIds \ {"env"}}
    /\ keyword = NoKeyword
    /\ robot = NoRobot

Step(t) ==
    \/ InterceptSessions(t)
    \/ InterceptContexts(t)
    \/ ResolveVariant(t)
    \/ RestoreContexts(t)
    \/ RestoreSessions(t)

Next ==
    \/ \E name \in KeywordNames, args \in ArgsSet, kwargs \in KwargsSet :
            Enter(1, name, args, kwargs)
    \/ Step(1)
    \/ \E effect \in BodyEffects : Invoke(1, effect)
    \/ Return(1)

Spec == Init /\ [][Next]_vars

\* two requests against the same library instance, served at the same time:
\* each carries one <session>= or <context>= option
ConcKwargs ==
    {kw \in KwargsSet : Cardinality(DOMAIN kw) = 1 /\ DOMAIN kw \subseteq {"conn", "mode", "env"}}

ConcNext ==
    \E t \in Callers :
        \/ \E name \in {"Recv", "Send"}, args \in ArgsSet, kwargs \in ConcKwargs :
                Enter(t, name, args, kwargs)
        \/ Step(t)
        \/ Invoke(t, [kind |-> "return", from |-> None, to |-> None])

ConcSpec == Init /\ [][ConcNext]_vars

\* a Keyword for each keyword function of the family, on a library instance
\* with or without session handlers
ArgsInit ==
    /\ LibraryInit
    /\ switchable = AllIds
    /\ keyword \in {[NoKeyword EXCEPT !.pc = "new", !.func = f, !.session_handlers = sh] :
                        f \in ArgsFuncs, sh \in {<<>>, session_handlers}}
    /\ robot = NoRobot

ArgsSpec == ArgsInit /\ [][Args]_vars

\* a RemoteRobot as constructed, for every choice of its arguments
RemoteInit ==
    /\ LibraryInit
    /\ switchable = AllIds
    /\ keyword = NoKeyword
    /\ robot \in {RemoteRobot(libraries, allow_import, register_keywords, introspection) :
                    libraries \in Distinct(LibraryNames, MaxLibraries),
                    allow_import \in SUBSET LibraryNames,
                    register_keywords \in BOOLEAN, introspection \in BOOLEAN}

RemoteNext ==
    \/ \E name \in LibraryNames : ImportRemoteLibrary(name)
    \/ GetKeywordNames
    \/ \E name \in AttributeNames : GetAttr(name)

RemoteSpec == RemoteInit /\ [][RemoteNext]_vars

-----------------------------------------------------------------------------
(* Properties of Keyword.__call__                                           *)

\* the handlers the call recorded and switched
SwitchedSessions(t) == {key[1] : key \in DOMAIN call[t].current_sessions}
SwitchedContexts(t) == DOMAIN call[t].current_contexts

PluralOf(identifier) ==
    LET i == CHOOSE i \in 1..Len(session_handlers) :
                session_handlers[i].identifier_name = identifier
    IN  session_handlers[i].plural_identifier_name

\* C1: when the body of the Keyword function raises, every session and
\* context the call switched is switched back by the time the caller sees
\* the error: the active session/context per handler is that of call entry.
C1_RestoredWhenBodyRaises ==
    \A t \in Callers :
        (/\ call[t].pc = "RAISED"
         /\ call[t].error = "KeywordError"
         /\ SwitchedSessions(t) \cup SwitchedContexts(t) # {})
        => /\ \A h \in SwitchedSessions(t) : session[h] = call[t].entry_session[h]
           /\ \A h \in SwitchedContexts(t) : context[h] = call[t].entry_context[h]

\* C2 as claimed: a call with a <session>= option that returns normally
\* leaves the handler's active session the object it was at entry, and the
\* body starts with the target session active.
C2_SessionRoundTrip ==
    \A t \in Callers : \A h \in SwitchedSessions(t) :
        /\ call[t].pc = "INVOKING" =>
                session[h] = sessions[PluralOf(h)][call[t].kwargs0[h].v]
        /\ call[t].pc = "DONE" => session[h] = call[t].entry_session[h]

\* the object is bound to a name of libinstance.<plural_identifier>
IsBound(h, object) ==
    \E sname \in Bound(sessions, PluralOf(h)) : sessions[PluralOf(h)][sname] = object

\* C2, amended: the same, provided the session object that was active at
\* entry is bound to a name of the handler's name -> session mapping when
\* the call switches back.
C2_SessionRoundTripIfBound ==
    \A t \in Callers : \A h \in SwitchedSessions(t) :
        /\ call[t].pc = "INVOKING" =>
                session[h] = sessions[PluralOf(h)][call[t].kwargs0[h].v]
        /\ (call[t].pc = "DONE" /\ IsBound(h, call[t].entry_session[h]))
                => session[h] = call[t].entry_session[h]

\* a call returned with the session it found at entry active again, after
\* its body ran with another one
C2_Witness ==
    /\ call[1].pc = "DONE"
    /\ "conn" \in SwitchedSessions(1)
    /\ call[1].entry_session["conn"] = "s1"
    /\ call[1].body_session["conn"] = "s2"
    /\ session["conn"] = "s1"

\* C3: when a switch of the interception fails, the error leaves __call__
\* and every handler switched earlier in the same call is back at its
\* previous session/context.
C3_RestoredWhenSwitchFails ==
    \A t \in Callers :
        (/\ call[t].pc = "RAISED"
         /\ call[t].error \in {"SwitchTargetNotFound", "AttributeError"})
        => /\ \A h \in SwitchedSessions(t) : session[h] = call[t].entry_session[h]
           /\ \A h \in SwitchedContexts(t) : context[h] = call[t].entry_context[h]

\* the frame of the call that was entered first
First == CHOOSE t \in Callers : call[t].seq = 1

\* C4: two calls served at the same time, each with a <session>= or
\* <context>= option, run one after the other: each body runs with the
\* session/context its own call asked for, and when both have returned the
\* active sessions and contexts are those from before either started.
C4_CallsSerialized ==
    /\ \A t \in Callers :
         call[t].pc \in {"RESTORING_CONTEXTS", "RESTORING_SESSIONS", "DONE"} =>
            /\ \A h \in SwitchedSessions(t) :
                 call[t].body_session[h] = sessions[PluralOf(h)][call[t].kwargs0[h].v]
            /\ \A h \in SwitchedContexts(t) :
                 Ctx(HandlerOf(h), call[t].kwargs0[h].v) \in call[t].body_contexts
    /\ (\A t \in Callers : call[t].pc = "DONE") =>
            /\ session = call[First].entry_session
            /\ context = call[First].entry_context

\* the function the call resolved to, against what is active when it resolves
Table(t) == KeywordFuncs[call[t].name].contexts

ActiveEntries(t) == {i \in 1..Len(Table(t)) : Table(t)[i].context \in contexts(context)}

\* C5: the function invoked is the variant registered for context X exactly
\* when X is active on the library instance when the call resolves, which is
\* after the <context>= options of the same call were applied, and it is the
\* base implementation when no variant's context is active.
C5_VariantWhenActive ==
    \A t \in Callers :
        call[t].pc = "INVOKING" =>
            /\ ActiveEntries(t) = {} => call[t].func = call[t].name
            /\ \A i \in 1..Len(Table(t)) :
                 /\ call[t].func = Table(t)[i].func => i \in ActiveEntries(t)
                 /\ ActiveEntries(t) = {i} => call[t].func = Table(t)[i].func
            /\ \A h \in SwitchedContexts(t) :
                 Ctx(HandlerOf(h), call[t].kwargs0[h].v) \in contexts(context)

\* a call made while "slow" was active asked for mode=fast and resolved to
\* the variant registered for "fast"
C5_Witness ==
    /\ call[1].pc = "INVOKING"
    /\ call[1].name = "Recv"
    /\ call[1].entry_context["mode"] = "slow"
    /\ "mode" \in SwitchedContexts(1)
    /\ call[1].func = "Recv_fast"

\* the frame is past the call of the Keyword function
Called(t) ==
    \/ call[t].pc \in {"RESTORING_CONTEXTS", "RESTORING_SESSIONS", "DONE"}
    \/ call[t].pc = "RAISED" /\ call[t].error = "KeywordError"

\* the remaining keyword arguments as 'key=value' strings
Encoded(kwargs) == {StrVal(k \o "=" \o Str(kwargs[k])) : k \in DOMAIN kwargs}

\* the function was called with args and the kwargs, natively
Native(t) == call[t].passed = [args |-> call[t].args, kwargs |-> call[t].kwargs]

\* the function was called with args, then every kwarg as a string
Reencoded(t) ==
    /\ call[t].passed.kwargs = EmptyDict
    /\ Len(call[t].passed.args) = Len(call[t].args) + Cardinality(DOMAIN call[t].kwargs)
    /\ SubSeq(call[t].passed.args, 1, Len(call[t].args)) = call[t].args
    /\ {call[t].passed.args[i] : i \in Len(call[t].args) + 1 .. Len(call[t].passed.args)}
            = Encoded(call[t].kwargs)

\* C6 as claimed: the kwargs are passed natively when the resolved function
\* declares **kwargs or none remain, and as 'key=value' strings after the
\* positional arguments otherwise.
C6_ForwardByResolvedFunc ==
    \A t \in Callers :
        Called(t) =>
            IF call[t].func \in DeclaresKeywords \/ DOMAIN call[t].kwargs = {}
            THEN Native(t) ELSE Reencoded(t)

\* C6, amended: the kwargs are passed natively when the Keyword's own
\* function (the base implementation, self.func) declares **kwargs or none
\* remain, and as 'key=value' strings after the positional arguments
\* otherwise; the function called is the resolved one in both cases.
C6_ForwardByKeywordFunc ==
    \A t \in Callers :
        Called(t) =>
            IF call[t].name \in DeclaresKeywords \/ DOMAIN call[t].kwargs = {}
            THEN Native(t) ELSE Reencoded(t)

\* a variant that declares **kwargs was called with k=7 as the string 'k=7',
\* because the Keyword's own function declares none
C6_Witness ==
    /\ call[1].pc = "DONE"
    /\ call[1].func = "Recv_fast"
    /\ call[1].kwargs = [k |-> IntVal(7)]
    /\ call[1].passed = [args |-> <<StrVal("p"), StrVal("k=7")>>, kwargs |-> EmptyDict]

-----------------------------------------------------------------------------
(* The order of the steps of Keyword.__call__                               *)

\* the place of a logged call in the order of the steps
LogRank(e) ==
    CASE e.step = "intercept" /\ e.kind = "session" -> 1
      [] e.step = "intercept" /\ e.kind = "context" -> 2
      [] e.step = "invoke" -> 4
      [] e.step = "restore" /\ e.kind = "context" -> 5
      [] e.step = "restore" /\ e.kind = "session" -> 6

\* the place of a step in the order of the steps
PcRank(pc) ==
    CASE pc = "IDLE" -> 0
      [] pc = "INTERCEPTING_SESSIONS" -> 1
      [] pc = "INTERCEPTING_CONTEXTS" -> 2
      [] pc = "RESOLVING_VARIANT" -> 3
      [] pc = "INVOKING" -> 4
      [] pc = "RESTORING_CONTEXTS" -> 5
      [] pc = "RESTORING_SESSIONS" -> 6
      [] pc = "DONE" -> 7
      [] pc = "RAISED" -> 8

\* the logged calls of a step that name the identifier
Events(t, step, identifier) ==
    {i \in DOMAIN call[t].log :
        call[t].log[i].step = step /\ call[t].log[i].identifier = identifier}

\* the calls a frame has made so far are in the order of the steps, and
\* none is of a step the frame has not reached
LogInOrder(t) ==
    LET log == call[t].log
    IN  /\ \A i, j \in DOMAIN log : i < j => LogRank(log[i]) <= LogRank(log[j])
        /\ call[t].pc # "RAISED" =>
                \A i \in DOMAIN log : LogRank(log[i]) < PcRank(call[t].pc)

\* a frame that has returned has called the function and has switched back
\* every context it recorded and every session it recorded that has a name
AllRestored(t) ==
    call[t].pc = "DONE" =>
        /\ \E i \in DOMAIN call[t].log : call[t].log[i].step = "invoke"
        /\ \A h \in SwitchedContexts(t) : Events(t, "restore", h) # {}
        /\ \A h \in SwitchedSessions(t) :
                IsBound(h, call[t].current_sessions[<<h, PluralOf(h)>>])
                    => Events(t, "restore", h) # {}

\* a frame moves to the next step, or leaves with an error from a step that
\* calls into the library instance or the function, or is given up once the
\* caller has the result or the error
StepsForward(t) ==
    call'[t].pc # call[t].pc =>
        \/ /\ call'[t].pc # "RAISED"
           /\ PcRank(call'[t].pc) = PcRank(call[t].pc) + 1
        \/ /\ call'[t].pc = "RAISED"
           /\ call[t].pc \in {"INTERCEPTING_SESSIONS", "INTERCEPTING_CONTEXTS", "INVOKING"}
        \/ /\ call'[t].pc = "IDLE"
           /\ call[t].pc \in {"DONE", "RAISED"}

\* C13: a call goes through its steps in the order IDLE, sessions
\* intercepted, contexts intercepted, variant resolved, function invoked,
\* contexts restored, sessions restored, DONE: every session switch of the
\* interception is before every context switch, these are before the call of
\* the function, the contexts are switched back before the sessions, and the
\* call returns only after both restorations.
C13_StepsInOrder ==
    /\ [](\A t \in Callers : LogInOrder(t) /\ AllRestored(t))
    /\ [][\A t \in Callers : StepsForward(t)]_vars

\* a call with a <session>= and a <context>= option has returned after the
\* five calls: switch_conn, switch_mode, the function, switch_mode, switch_conn
C13_Witness ==
    /\ call[1].pc = "DONE"
    /\ Len(call[1].log) = 5
    /\ call[1].log[1] = Switched("intercept", "session", "conn", "b")
    /\ call[1].log[2] = Switched("intercept", "context", "mode", "fast")
    /\ call[1].log[3] = Invoked("Recv_fast")
    /\ call[1].log[4] = Switched("restore", "context", "mode", "slow")
    /\ call[1].log[5] = Switched("restore", "session", "conn", "a")

-----------------------------------------------------------------------------
(* What Keyword.__call__ switches and what it leaves alone                  *)

\* the handlers __call__ goes through for the frame's Keyword: the session
\* handlers of the library instance and the Keyword's context_handlers
CallHandlers(t) == SessionIds \cup {Lower(h) : h \in context_handlers(call[t].name)}

\* the handlers the frame's call has an option for
Matching(t) == CallHandlers(t) \cap DOMAIN call[t].kwargs0

\* no switch_<identifier> call is made for a handler without an option
NotSwitched(t) ==
    \A h \in AllIds \ Matching(t) :
        \A i \in DOMAIN call[t].log : call[t].log[i].identifier # h

\* one switch_<identifier> call while intercepting for a handler with an
\* option: never more, and one as soon as the interception is through
SwitchedOnce(t) ==
    \A h \in Matching(t) :
        /\ Cardinality(Events(t, "intercept", h)) <= 1
        /\ PcRank(call[t].pc) \in 3..7 => Cardinality(Events(t, "intercept", h)) = 1

\* a step of __call__ itself leaves the active session/context of a handler
\* without an option as it is
FrameStep(t) ==
    (/\ call[t].pc \in {"INTERCEPTING_SESSIONS", "INTERCEPTING_CONTEXTS",
                        "RESOLVING_VARIANT", "RESTORING_CONTEXTS", "RESTORING_SESSIONS"}
     /\ call'[t].pc # call[t].pc)
    => /\ \A h \in SessionIds \ Matching(t) : session'[h] = session[h]
       /\ \A h \in ContextIds \ Matching(t) : context'[h] = context[h]

\* C14: for a session handler whose identifier is not a key of the call's
\* kwargs, and a context handler whose lower-cased class name is not,
\* __call__ makes no switch_<identifier> call, neither when intercepting nor
\* when restoring, and its steps leave that handler's active session/context
\* unchanged; a handler with a matching key is switched exactly once while
\* intercepting.
C14_OnlyMatchingSwitched ==
    /\ [](\A t \in Callers : call[t].pc # "IDLE" => NotSwitched(t) /\ SwitchedOnce(t))
    /\ [][\A t \in Callers : FrameStep(t)]_vars

\* Send was called with conn= and env=: one switch_conn and one switch_env
\* while intercepting, and db and mode are what they were
C14_Witness ==
    /\ call[1].pc = "DONE"
    /\ call[1].name = "Send"
    /\ DOMAIN call[1].kwargs0 = {"conn", "env"}
    /\ Cardinality(Events(1, "intercept", "conn")) = 1
    /\ Cardinality(Events(1, "intercept", "env")) = 1
    /\ Events(1, "intercept", "db") \cup Events(1, "restore", "db") = {}
    /\ Events(1, "intercept", "mode") \cup Events(1, "restore", "mode") = {}
    /\ session["db"] = call[1].entry_session["db"]
    /\ context["mode"] = call[1].entry_context["mode"]

-----------------------------------------------------------------------------
(* Sessions are switched back by identity                                   *)

\* the session object the frame recorded for the handler
Recorded(t, h) == call[t].current_sessions[<<h, PluralOf(h)>>]

\* the body of the frame's function bound the recorded object of "conn" to
\* another name
Rebound(t) ==
    /\ "conn" \in SwitchedSessions(t)
    /\ call[t].effect.kind = "rename"
    /\ sessions["conns"][call[t].effect.to] = Recorded(t, "conn")

\* C15: when switching back, __call__ looks in the name -> session mapping
\* as it is then for the name bound to the recorded object and switches to
\* that name: every switch back names the recorded object, and when the body
\* bound that object to another name, the switch back is to the new name and
\* the call ends with the object active that was active at entry.
C15_RestoredByIdentity ==
    \A t \in Callers :
        call[t].pc = "DONE" =>
            /\ \A h \in SwitchedSessions(t) : \A i \in Events(t, "restore", h) :
                    call[t].log[i].kind = "session" =>
                        sessions[PluralOf(h)][call[t].log[i].arg] = Recorded(t, h)
            /\ Rebound(t) =>
                    /\ \E i \in Events(t, "restore", "conn") :
                            call[t].log[i].arg = call[t].effect.to
                    /\ session["conn"] = Recorded(t, "conn")
                    /\ session["conn"] = call[t].entry_session["conn"]

\* the call was made with session s1 active under the name a; its body
\* bound s1 to the name c, and the call switched back to c: s1 is active
C15_Witness ==
    /\ call[1].pc = "DONE"
    /\ call[1].entry_session["conn"] = "s1"
    /\ call[1].body_session["conn"] = "s2"
    /\ call[1].effect = [kind |-> "rename", from |-> "a", to |-> "c"]
    /\ Rebound(1)
    /\ call[1].log[Len(call[1].log)] = Switched("restore", "session", "conn", "c")
    /\ session["conn"] = "s1"

-----------------------------------------------------------------------------
(* The function a call invokes                                              *)

\* the entries of the variant table whose context was active when the
\* function was called
ActiveAtCall(t) == {i \in 1..Len(Table(t)) : Table(t)[i].context \in call[t].body_contexts}

\* the calls of a function that the frame has made
Invocations(t) == {i \in DOMAIN call[t].log : call[t].log[i].step = "invoke"}

\* C16: a call invokes exactly one function; when the contexts of several
\* variants are active at once, it is the variant of the last such entry in
\* the iteration order of func.contexts, and neither an earlier matching
\* variant nor the base implementation.
C16_LastMatchWins ==
    \A t \in Callers :
        Called(t) =>
            /\ Cardinality(Invocations(t)) = 1
            /\ \A i \in Invocations(t) : call[t].log[i] = Invoked(call[t].func)
            /\ ActiveAtCall(t) # {} =>
                    LET last == CHOOSE i \in ActiveAtCall(t) : \A j \in ActiveAtCall(t) : j <= i
                    IN  /\ call[t].func = Table(t)[last].func
                        /\ call[t].func # call[t].name
                        /\ \A j \in ActiveAtCall(t) \ {last} :
                                call[t].func # Table(t)[j].func
            /\ call[t].pc # "RAISED" => call[t].result = call[t].func

\* Emit lists its variant for Env.prod before the one for Mode.fast; with
\* both contexts active the call invoked Emit_fast
C16_Witness ==
    /\ call[1].pc = "DONE"
    /\ call[1].name = "Emit"
    /\ ActiveAtCall(1) = {1, 2}
    /\ call[1].func = "Emit_fast"
    /\ call[1].result = "Emit_fast"

-----------------------------------------------------------------------------
(* Contexts are switched for the call and switched back                     *)

\* the frame is past the call of the function, which returned
Returned(t) == call[t].pc \in {"RESTORING_CONTEXTS", "RESTORING_SESSIONS", "DONE"}

\* C17: a call with a <context>= option for one of the Keyword's context
\* handlers, which returns normally, records the handler's context as it is
\* before the switch, has the target context active while the body runs,
\* and leaves the recorded context active again.
C17_ContextRoundTrip ==
    \A t \in Callers : \A h \in SwitchedContexts(t) :
        /\ call[t].current_contexts[h] = call[t].entry_context[h]
        /\ Returned(t) =>
                /\ h \in Matching(t)
                /\ Ctx(HandlerOf(h), call[t].kwargs0[h].v) \in call[t].body_contexts
        /\ call[t].pc = "DONE" => context[h] = call[t].entry_context[h]

\* Recv was called with mode=fast while slow was active: its body ran in
\* fast, and slow is active again
C17_Witness ==
    /\ call[1].pc = "DONE"
    /\ call[1].name = "Recv"
    /\ call[1].kwargs0 = [mode |-> StrVal("fast")]
    /\ call[1].current_contexts = [mode |-> "slow"]
    /\ Ctx("Mode", "fast") \in call[1].body_contexts
    /\ context["mode"] = "slow"

-----------------------------------------------------------------------------
(* What the function is called with                                         *)

\* the options the frame's call took out of kwargs
Intercepted(t) == SwitchedSessions(t) \cup SwitchedContexts(t)

\* the kwargs as the caller gave them, restricted to the keys
Restrict(kwargs, keys) == [k \in DOMAIN kwargs \cap keys |-> kwargs[k]]

\* the positional arguments the function got
PassedArgs(t) == {call[t].passed.args[i] : i \in DOMAIN call[t].passed.args}

\* C18: an option that was intercepted (its key is the identifier of a
\* session handler or the lower-cased class name of one of the Keyword's
\* context handlers) does not reach the function, neither as a keyword
\* argument nor as a 'key=value' string; the function gets the caller's
\* positional arguments first and unchanged, and the kwargs that were not
\* intercepted, and nothing else.
C18_InterceptedNotForwarded ==
    \A t \in Callers :
        Called(t) =>
            LET rest == Restrict(call[t].kwargs0, DOMAIN call[t].kwargs0 \ Intercepted(t))
                taken == Restrict(call[t].kwargs0, Intercepted(t))
            IN  /\ Intercepted(t) = Matching(t)
                /\ DOMAIN call[t].passed.kwargs \cap Intercepted(t) = {}
                /\ PassedArgs(t) \cap Encoded(taken) = {}
                /\ SubSeq(call[t].passed.args, 1, Len(call[t].args)) = call[t].args
                /\ \/ /\ call[t].passed.args = call[t].args
                      /\ call[t].passed.kwargs = rest
                   \/ /\ call[t].passed.kwargs = EmptyDict
                      /\ Len(call[t].passed.args) =
                            Len(call[t].args) + Cardinality(DOMAIN rest)
                      /\ PassedArgs(t) \subseteq
                            {call[t].args[i] : i \in DOMAIN call[t].args} \cup Encoded(rest)
                      /\ Encoded(rest) \subseteq PassedArgs(t)

\* Recv was called with conn=b and k=7: the function got 'p' and 'k=7', and
\* nothing of conn
C18_Witness ==
    /\ call[1].pc = "DONE"
    /\ call[1].name = "Recv"
    /\ call[1].kwargs0 = [conn |-> StrVal("b"), k |-> IntVal(7)]
    /\ Intercepted(1) = {"conn"}
    /\ call[1].passed = [args |-> <<StrVal("p"), StrVal("k=7")>>, kwargs |-> EmptyDict]

-----------------------------------------------------------------------------
(* A recorded session that has no name when the call switches back          *)

\* the body of the frame's function removed the session that the call had
\* switched to
TargetClosed(t, h) ==
    /\ h = "conn"
    /\ call[t].effect.kind = "close"
    /\ ~IsBound(h, call[t].body_session[h])

\* C19: when the recorded session object of a handler is bound to no name
\* of the name -> session mapping at the time the call switches back (none
\* was active at entry, or the body removed it), the call makes no
\* switch_<identifier> call for that handler when restoring, raises no
\* error and returns the result of the function, and the session the call
\* switched to stays the active one (unless the body removed that one too,
\* which leaves none active).
C19_NoSwitchBackWithoutName ==
    \A t \in Callers : \A h \in SwitchedSessions(t) :
        (call[t].pc = "DONE" /\ ~IsBound(h, Recorded(t, h))) =>
            /\ Events(t, "restore", h) = {}
            /\ call[t].error = None
            /\ call[t].result = call[t].func
            /\ session[h] = IF TargetClosed(t, h) THEN None ELSE call[t].body_session[h]
            /\ ~TargetClosed(t, h) =>
                    session[h] = sessions[PluralOf(h)][call[t].kwargs0[h].v]
                    \/ call[t].effect.kind = "rename"

\* the body removed the session s1 that was active at entry, under its
\* name a: the call returned with the target s2 still active
C19_Witness ==
    /\ call[1].pc = "DONE"
    /\ "conn" \in SwitchedSessions(1)
    /\ Recorded(1, "conn") = "s1"
    /\ call[1].effect = [kind |-> "close", from |-> "a", to |-> None]
    /\ ~IsBound("conn", "s1")
    /\ Events(1, "restore", "conn") = {}
    /\ call[1].result = call[1].func
    /\ session["conn"] = "s2"

-----------------------------------------------------------------------------
(* Properties of Keyword.args()                                             *)

\* C9: for a keyword function with an explicit args override, args() yields
\* exactly the tokens of the override, in order and with nothing added,
\* whatever the argspec, the session handlers and the context variants are.
C9_OverrideVerbatim ==
    (keyword.pc = "listed" /\ keyword.func.args.given)
        => keyword.arguments = keyword.func.args.items

\* the parameters after the first, and the declared defaults
Posargs == SubSeq(keyword.func.argspec.args, 2, Len(keyword.func.argspec.args))

Defaults == keyword.func.argspec.defaults.items

\* C10: without an override, args() drops the first parameter and renders
\* the n others in order; the last min(k, n) of them as 'name=default', the
\* i-th from the end with the i-th of the k defaults from the end, the
\* earlier ones as bare names; defaults beyond n are not used.
C10_DefaultsFromTheRight ==
    (keyword.pc = "listed" /\ ~keyword.func.args.given) =>
        LET n == Len(Posargs)
            k == Len(Defaults)
        IN  /\ Len(keyword.arguments) >= n
            /\ \A i \in 1..n :
                 LET fromEnd == n - i + 1
                 IN  keyword.arguments[i] =
                        IF fromEnd <= k
                        THEN Posargs[i] \o "=" \o Str(Defaults[k - fromEnd + 1])
                        ELSE Posargs[i]
            /\ (/\ keyword.func.argspec.args = <<"self", "a", "b", "c">>
                /\ Defaults = <<IntVal(5)>>)
                    => SubSeq(keyword.arguments, 1, 3) = <<"a", "b", "c=5">>

\* (self, a) with the defaults ('x', 5): one default more than parameters
\* after self, and args() gave 'a=5'
C10_Witness ==
    /\ keyword.pc = "listed"
    /\ ~keyword.func.args.given
    /\ keyword.func.argspec.args = <<"self", "a">>
    /\ Defaults = <<StrVal("x"), IntVal(5)>>
    /\ keyword.arguments[1] = "a=5"

\* the token names a variadic-keyword parameter
IsKeywordsToken(token) == Len(token) >= 2 /\ SubSeq(token, 1, 2) = "**"

KeywordsTokens == {i \in DOMAIN keyword.arguments : IsKeywordsToken(keyword.arguments[i])}

\* C11: without an override and without a **kwargs parameter in the
\* argspec, args() ends with '**options' when the library instance has a
\* session handler or the keyword function has a context variant; with a
\* **<name> parameter, '**<name>' is the last token and '**options' is not
\* yielded; with none of the three, no '**' token is yielded.
C11_OptionsToken ==
    (keyword.pc = "listed" /\ ~keyword.func.args.given) =>
        LET keywords == keyword.func.argspec.keywords
            switching == Len(keyword.session_handlers) > 0 \/ Len(keyword.func.contexts) > 0
            last == Len(keyword.arguments)
        IN  /\ (keywords = None /\ switching) =>
                    /\ last > 0
                    /\ keyword.arguments[last] = "**options"
                    /\ KeywordsTokens = {last}
            /\ keywords # None =>
                    /\ last > 0
                    /\ keyword.arguments[last] = "**" \o keywords
                    /\ KeywordsTokens = {last}
            /\ (keywords = None /\ ~switching) => KeywordsTokens = {}

\* a function (self, a, *args) with a context variant, on a library
\* instance without session handlers: args() gave a, *args, **options
C11_Witness ==
    /\ keyword.pc = "listed"
    /\ ~keyword.func.args.given
    /\ keyword.session_handlers = <<>>
    /\ Len(keyword.func.contexts) > 0
    /\ keyword.func.argspec.defaults = NoList
    /\ keyword.arguments = <<"a", "*args", "**options">>

-----------------------------------------------------------------------------
(* Properties of the RemoteRobot                                            *)

\* C7: import_remote_library(name) fails as 'not allowed' whenever name is
\* not in the allow-list; whenever it is, the call completes without an
\* error, the library is imported, its keywords are registered if
\* register_keywords is set, and its keywords can be resolved.
C7_ImportAllowedSucceeds ==
    (robot.pc = "serving" /\ robot.op.name = "import_remote_library") =>
        LET name == robot.op.arg
        IN  /\ name \notin robot.allow_import => robot.op.error = "RuntimeError"
            /\ name \in robot.allow_import =>
                /\ robot.op.error = None
                /\ Contains(robot._libraries, name)
                /\ robot.register_keywords =>
                        register_library_keywords(name) \subseteq robot.functions
                /\ \A i \in DOMAIN LibraryKeywords[name] :
                        Resolvable(robot._libraries, LibraryKeywords[name][i])

\* the libraries imported so far, each at its first import
ImportedSoFar == Unique(robot.imported)

\* the number of names listed for the libraries before the j-th
RECURSIVE NamesBefore(_)
NamesBefore(j) ==
    IF j <= 1 THEN 0
    ELSE NamesBefore(j - 1) + Len(LibraryKeywords[ImportedSoFar[j - 1]])

\* C8: get_keyword_names() gives the keyword names of every library imported
\* so far, library after library in import order, each library's names in
\* its own order, a name of several libraries once for each of them.
C8_NamesOfAllLibraries ==
    (robot.pc = "serving" /\ robot.op.name = "get_keyword_names") =>
        /\ Len(robot.op.result) = NamesBefore(Len(ImportedSoFar) + 1)
        /\ \A j \in DOMAIN ImportedSoFar :
             \A i \in DOMAIN LibraryKeywords[ImportedSoFar[j]] :
                robot.op.result[NamesBefore(j) + i] = LibraryKeywords[ImportedSoFar[j]][i]

\* a robot made with {A, B} imported {B, C} later, and the names are
\* A, B, B, C
C8_Witness ==
    /\ robot.pc = "serving"
    /\ robot.libraries = <<"LibA">>
    /\ robot.imported = <<"LibA", "LibB">>
    /\ robot.op.name = "get_keyword_names"
    /\ robot.op.result = <<"A", "B", "B", "C">>

\* C12: an attribute of the RemoteLibrary that is not one of its own is
\* looked up as a keyword of the robot: the access gives that keyword when
\* one of the imported libraries has it, and fails with the error of a name
\* that is not found (AttributeError, for the KeyError of the lookup) when
\* none has.
C12_AttributeFallback ==
    (robot.pc = "serving" /\ robot.op.name \in {"getattribute", "__getattr__"}) =>
        LET name == robot.op.arg
        IN  /\ robot.op.name = "__getattr__" <=> name \notin RemoteLibraryAttributes
            /\ (robot.op.name = "__getattr__" /\ Resolvable(robot._libraries, name)) =>
                    /\ robot.op.error = None
                    /\ robot.op.result = <<"Keyword", name>>
            /\ (robot.op.name = "__getattr__" /\ ~Resolvable(robot._libraries, name)) =>
                    /\ robot.op.error = "AttributeError"
                    /\ robot.op.result = <<>>

\* a name no library had was asked for and failed; LibC was imported since,
\* and the keyword D it brings is found
C12_Witness ==
    /\ robot.pc = "serving"
    /\ robot.libraries = <<"LibA">>
    /\ robot.imported = <<"LibA", "LibC">>
    /\ robot.op.name = "__getattr__"
    /\ robot.op.arg = "D"
    /\ robot.op.error = None
    /\ robot.op.result = <<"Keyword", "D">>

\* the libraries of the robot
Libraries(r) == {r._libraries[i] : i \in DOMAIN r._libraries}

\* a call of import_remote_library that the allow-list check turned down
Rejected ==
    /\ robot'.op.name = "import_remote_library"
    /\ robot'.op.error = "RuntimeError"

\* C20: whatever import_remote_library calls were made, the libraries of
\* the robot are among those it was constructed with and those of the
\* allow-list; a call the allow-list check turns down names a library that
\* is not in the allow-list, imports no library and registers no function.
C20_ImportsWithinAllowList ==
    /\ [](robot.pc = "serving" =>
            Libraries(robot) \subseteq
                {robot.libraries[i] : i \in DOMAIN robot.libraries} \cup robot.allow_import)
    /\ [][(robot.pc = "serving" /\ Rejected) =>
            /\ robot'.op.arg \notin robot.allow_import
            /\ robot'._libraries = robot._libraries
            /\ robot'.imported = robot.imported
            /\ robot'.functions = robot.functions
            /\ robot'.allow_import = robot.allow_import]_vars

\* a robot made with LibA that allows LibB: LibB was imported, and an
\* import of LibC was turned down after that
C20_Witness ==
    /\ robot.pc = "serving"
    /\ robot.libraries = <<"LibA">>
    /\ robot.allow_import = {"LibB"}
    /\ robot._libraries = <<"LibA", "LibB">>
    /\ robot.op.name = "import_remote_library"
    /\ robot.op.arg = "LibC"
    /\ robot.op.error = "RuntimeError"

====
